---- MODULE Spec2Model ----
(***************************************************************************)
(* The hyperparameter sweeps of the bagging / boosting / random-forest     *)
(* notebook (src/unnamed/part_000, first notebook), run cell by cell in    *)
(* one Jupyter kernel, and the cells of src/FINAL_XGBoost.ipynb, run in a  *)
(* kernel of their own.  A kernel executes one cell at a time; the names   *)
(* a cell binds stay bound until another execution rebinds them.           *)
(*                                                                         *)
(* Scores are accuracies in millionths (0.5 is 500000).  learning_rate     *)
(* values are in thousandths.                                              *)
(***************************************************************************)
EXTENDS Integers, Sequences, FiniteSets, TLC

VARIABLES
    ns,       \* kernel namespace: name -> {} (unbound) or {value}
    est,      \* the estimator objects bag / boost / rfc
    pc,       \* the cell being executed and the statement it is at
    out,      \* what the cell executed last has printed so far
    err,      \* the exception that ended the cell executed last, if any
    truth,    \* what fit yields per combination on the data now loaded,
              \* as far as the sweep followed has observed it
    fits,     \* log: the combinations fitted by the current execution
    last,     \* log: outcome of the previous execution of the sweep followed
    runs,     \* number of sweep-cell executions started
    order,    \* the order in which the sweep being executed takes the grid
    xns,      \* namespace of the kernel of the XGBoost notebook
    file,     \* test_file_xgboost.csv: {} (absent) or {[rows, closed]}
    xpc,      \* the cell of the XGBoost notebook being executed
    xout      \* what the accuracy cell of the XGBoost notebook printed last

\* the kernel of the sweep notebook and the kernel of the XGBoost notebook
svars == <<ns, est, pc, out, err, truth, fits, last, runs, order>>
xvars == <<xns, file, xpc, xout>>
vars == <<ns, est, pc, out, err, truth, fits, last, runs, order,
          xns, file, xpc, xout>>

---------------------------------------------------------------------------
(* Bounds *)

\* how many values of each hyperparameter list the model keeps
NumLeaf == 2
NumEst == 2
NumDepth == 2
NumRate == 1
NumFeat == 1
MaxTest == 2
MaxId == 1
\* how many sweep-cell executions one kernel session is followed for
MaxRuns == 2

---------------------------------------------------------------------------
(* The grids *)

Take(s, n) == SubSeq(s, 1, IF n < Len(s) THEN n ELSE Len(s))

\* the value lists as the notebook writes them
bag_hyperparam_lists ==
    << <<"min_samples_leaf", <<1, 3, 5, 7, 9>> >>,
       <<"n_estimators", <<500, 750, 1000, 1250, 1500, 2000>> >> >>

boost_hyperparam_lists ==
    << <<"learning_rate", <<1, 10, 100, 500, 1000>> >>,
       <<"max_depth", <<1, 3, 5, 7, 9>> >>,
       <<"n_estimators", <<500, 750, 1000, 1250, 1500, 2000>> >> >>

rf_hyperparam_lists ==
    << <<"max_features", <<3, 4, 5, 6, 7, 8>> >>,
       <<"min_samples_leaf", <<1, 3, 5, 7, 9>> >>,
       <<"n_estimators", <<500, 750, 1000, 1250, 1500, 2000>> >> >>

\* how many values of a hyperparameter's list the model keeps
Kept(key) ==
    CASE key = "min_samples_leaf" -> NumLeaf
      [] key = "n_estimators"     -> NumEst
      [] key = "max_depth"        -> NumDepth
      [] key = "learning_rate"    -> NumRate
      [] key = "max_features"     -> NumFeat

Bounded(lists) ==
    [k \in 1..Len(lists) |-> <<lists[k][1], Take(lists[k][2], Kept(lists[k][1]))>>]

bag_hyperparam_grid == Bounded(bag_hyperparam_lists)

boost_hyperparam_grid == Bounded(boost_hyperparam_lists)

rf_hyperparam_grid == Bounded(rf_hyperparam_lists)

\* the value lists taken side by side instead of crossed
ZipGrid(items) ==
    [n \in 1..Len(items[1][2]) |->
        [key \in {items[k][1] : k \in 1..Len(items)} |->
            LET k == CHOOSE j \in 1..Len(items) : items[j][1] = key
            IN  items[k][2][IF n <= Len(items[k][2]) THEN n ELSE 1]]]

\* sklearn's ParameterGrid: the product of the value lists, keys in sorted
\* order (the grids above list them so), the last key varying fastest.
RECURSIVE ParameterGrid(_)
ParameterGrid(items) ==
    IF items = <<>> THEN << <<>> >>
    ELSE LET key  == items[1][1]
             vals == items[1][2]
             rest == ParameterGrid(Tail(items))
         IN  [n \in 1..(Len(vals) * Len(rest)) |->
                (key :> vals[((n - 1) \div Len(rest)) + 1])
                    @@ rest[((n - 1) % Len(rest)) + 1]]

Families == {"bag", "boost", "rfc"}

Grid(f) ==
    CASE f = "bag"   -> ParameterGrid(bag_hyperparam_grid)
      [] f = "boost" -> ParameterGrid(boost_hyperparam_grid)
      [] f = "rfc"   -> ParameterGrid(rf_hyperparam_grid)

---------------------------------------------------------------------------
(* The names each sweep cell uses *)

Names == {"best_score", "best_params", "best_boost_score",
          "best_boost_params", "best_rfc_score", "best_rfc_params"}

\* the name the cell sets to the floor and compares each score with
ThresholdVar(f) ==
    CASE f = "bag"   -> "best_score"
      [] f = "boost" -> "best_boost_score"
      [] f = "rfc"   -> "best_score"

\* one name for threshold and recorded score in every cell
SameVar(f) ==
    CASE f = "bag"   -> "best_score"
      [] f = "boost" -> "best_boost_score"
      [] f = "rfc"   -> "best_score"

\* the name the cell assigns the score to on an improvement, and prints
ScoreVar(f) ==
    CASE f = "bag"   -> "best_score"
      [] f = "boost" -> "best_boost_score"
      [] f = "rfc"   -> "best_rfc_score"

\* the name the cell assigns the combination to on an improvement
ParamsVar(f) ==
    CASE f = "bag"   -> "best_params"
      [] f = "boost" -> "best_boost_params"
      [] f = "rfc"   -> "best_rfc_params"

Val(x) == CHOOSE v \in x : TRUE

---------------------------------------------------------------------------
(* Scores *)

Floor == 500000

\* below the floor, the floor itself, just above it, well above it
Scores == {Floor - 100000, Floor, Floor + 4, Floor + 200000}

\* fit either raises (-1) or leaves a fitted estimator with a score
FitOutcomes == Scores \cup {-1}

\* random_state=1: on one training set a combination yields one outcome.
\* known = 0: this combination has not been fitted on the loaded data yet.
Unseeded(known, r) == TRUE
Seeded(known, r) == known = 0 \/ known = r

\* the estimator a sweep cell instantiates: no grid parameter set, not fitted
NewEstimator == [params |-> {}, fitted |-> "none", measured |-> 0]

\* fit leaves the estimator fitted on the training partition, with the
\* score of this fit
FittedStale(e, r) == [e EXCEPT !.fitted = "X_train"]
Fitted(e, r) == [e EXCEPT !.fitted = "X_train", !.measured = r]

\* the score the sweep reads after fit, and the records it is measured on
SweepScore(f) ==
    [value |-> est[f].measured,
     on    |-> IF f = "boost" THEN "X_train" ELSE "oob"]

ImprovesOnFloor(s, best) == s > Floor
ImprovesOrTies(s, best) == s >= best
Improves(s, best) == s > best

\* "%0.5f": five decimals, i.e. hundred-thousandths
Format5(x) == (x + 5) \div 10

\* the for statement takes the next combination of the grid
SkipIndex(i) == i + 2
NextIndex(i) == i + 1

\* an exception leaves the cell: no later statement of it runs
Swallow(p) == [p EXCEPT !.at = "for"]
Raise(p) == [p EXCEPT !.at = "raised"]

Resting == {"idle", "done", "raised"}

\* the grid order: ParameterGrid yields its combinations first to last
GridOrder(f) == [k \in 1..Len(Grid(f)) |-> k]

\* the grid index of the combination the loop is at
Cur == order[pc.i]

---------------------------------------------------------------------------
(* Initial state: a fresh kernel, data imported, nothing swept *)

\* the names the cells of the XGBoost notebook bind
XNames == {"campaign_test", "X_train", "model", "best_params", "xgb_model",
           "y_REAL_test"}

Init ==
    /\ ns = [n \in Names |-> {}]
    /\ est = [f \in Families |-> NewEstimator]
    /\ pc = [cell |-> "import", at |-> "idle", i |-> 0]
    /\ out = <<>>
    /\ err = "none"
    /\ truth = [f \in Families |-> [i \in 1..Len(Grid(f)) |-> 0]]
    /\ fits = <<>>
    /\ last = [f \in Families |-> {}]
    /\ runs = 0
    /\ order = <<>>
    /\ xns = [n \in XNames |-> {}]
    /\ file = {}
    /\ xpc = [cell |-> "none", at |-> "idle", i |-> 0, err |-> "none"]
    /\ xout = <<>>

---------------------------------------------------------------------------
(* Cells *)

\* Import Data cell: the CSV files are read again
ImportData ==
    /\ pc.at \in Resting
    /\ pc' = [cell |-> "import", at |-> "done", i |-> 0]
    /\ truth' = [f \in Families |-> [i \in 1..Len(Grid(f)) |-> 0]]
    /\ last' = [f \in Families |-> {}]
    /\ out' = <<>>
    /\ err' = "none"
    /\ fits' = <<>>
    /\ UNCHANGED <<ns, est, runs, order>>
    /\ UNCHANGED xvars

\* a sweep cell starts: grid, estimator, floor.  The logs follow one sweep
\* at a time: what they hold of another family is dropped here, so that a
\* later execution of that family is compared with nothing.
StartSweep(f) ==
    /\ pc.at \in Resting
    /\ runs < MaxRuns
    /\ runs' = runs + 1
    /\ est' = [est EXCEPT ![f] = NewEstimator]
    /\ ns' = [ns EXCEPT ![ThresholdVar(f)] = {Floor}]
    /\ pc' = [cell |-> f, at |-> "for", i |-> 0]
    /\ order' = GridOrder(f)
    /\ out' = <<>>
    /\ err' = "none"
    /\ fits' = <<>>
    /\ last' = [g \in Families |->
                 IF g = f /\ pc.cell = f
                 THEN {[out |-> out, err |-> err]} ELSE {}]
    /\ truth' = [g \in Families |->
                  IF g = f THEN truth[f] ELSE [i \in 1..Len(Grid(g)) |-> 0]]
    /\ UNCHANGED xvars

\* the loop left one combination early
ForNextShort(f) ==
    /\ pc.cell = f /\ pc.at = "for"
    /\ pc' = IF NextIndex(pc.i) < Len(Grid(f))
             THEN [pc EXCEPT !.i = NextIndex(pc.i), !.at = "set_params"]
             ELSE [pc EXCEPT !.at = "print_score"]
    /\ UNCHANGED <<ns, est, out, err, truth, fits, last, runs, order>>
    /\ UNCHANGED xvars

\* for g in ParameterGrid(...)
ForNext(f) ==
    /\ pc.cell = f /\ pc.at = "for"
    /\ pc' = IF NextIndex(pc.i) <= Len(Grid(f))
             THEN [pc EXCEPT !.i = NextIndex(pc.i), !.at = "set_params"]
             ELSE [pc EXCEPT !.at = "print_score"]
    /\ UNCHANGED <<ns, est, out, err, truth, fits, last, runs, order>>
    /\ UNCHANGED xvars

\* set_params keeping g itself, best_params being the same dict
SetParamsAliased(f) ==
    /\ pc.cell = f /\ pc.at = "set_params"
    /\ est' = [est EXCEPT ![f].params = {Grid(f)[Cur]}]
    /\ ns' = [ns EXCEPT ![ParamsVar(f)] =
                 IF ns[ParamsVar(f)] = {} THEN {} ELSE {Grid(f)[Cur]}]
    /\ pc' = [pc EXCEPT !.at = "fit"]
    /\ UNCHANGED <<out, err, truth, fits, last, runs, order>>
    /\ UNCHANGED xvars

\* est.set_params(**g)
SetParams(f) ==
    /\ pc.cell = f /\ pc.at = "set_params"
    /\ est' = [est EXCEPT ![f].params = {Grid(f)[Cur]}]
    /\ pc' = [pc EXCEPT !.at = "fit"]
    /\ UNCHANGED <<ns, out, err, truth, fits, last, runs, order>>
    /\ UNCHANGED xvars

\* est.fit(X_train, y_train)
Fit(f) ==
    /\ pc.cell = f /\ pc.at = "fit"
    /\ \E r \in FitOutcomes :
         /\ Seeded(truth[f][Cur], r)
         /\ truth' = [truth EXCEPT ![f][Cur] = r]
         /\ fits' = Append(fits, Cur)
         /\ IF r = -1
            THEN /\ pc' = Raise(pc)
                 /\ err' = "FitError"
                 /\ est' = est
            ELSE /\ pc' = [pc EXCEPT !.at = "test"]
                 /\ err' = err
                 /\ est' = [est EXCEPT ![f] = Fitted(est[f], r)]
    /\ UNCHANGED <<ns, out, last, runs, order>>
    /\ UNCHANGED xvars

\* if score > threshold: save score and combination
Test(f) ==
    /\ pc.cell = f /\ pc.at = "test"
    /\ ns' = IF Improves(SweepScore(f).value, Val(ns[ThresholdVar(f)]))
             THEN [ns EXCEPT ![ScoreVar(f)] = {SweepScore(f).value},
                             ![ParamsVar(f)] = {Grid(f)[Cur]}]
             ELSE ns
    /\ pc' = [pc EXCEPT !.at = "for"]
    /\ UNCHANGED <<est, out, err, truth, fits, last, runs, order>>
    /\ UNCHANGED xvars

\* print(f"OOB: %0.5f" % score)
PrintScore(f) ==
    /\ pc.cell = f /\ pc.at = "print_score"
    /\ IF ns[ScoreVar(f)] = {}
       THEN /\ pc' = Raise(pc)
            /\ err' = "NameError"
            /\ out' = out
       ELSE /\ pc' = [pc EXCEPT !.at = "print_params"]
            /\ err' = err
            /\ out' = Append(out, [label |-> "OOB",
                                   value |-> Format5(Val(ns[ScoreVar(f)]))])
    /\ UNCHANGED <<ns, est, truth, fits, last, runs, order>>
    /\ UNCHANGED xvars

\* print("Best parameters:", params)
PrintParams(f) ==
    /\ pc.cell = f /\ pc.at = "print_params"
    /\ IF ns[ParamsVar(f)] = {}
       THEN /\ pc' = Raise(pc)
            /\ err' = "NameError"
            /\ out' = out
       ELSE /\ pc' = [pc EXCEPT !.at = "done"]
            /\ err' = err
            /\ out' = Append(out, [label |-> "Best parameters",
                                   value |-> Val(ns[ParamsVar(f)])])
    /\ UNCHANGED <<ns, est, truth, fits, last, runs, order>>
    /\ UNCHANGED xvars

\* the cell the final model of a family is built in
FinalCell(f) ==
    CASE f = "bag"   -> "bag_final"
      [] f = "boost" -> "boost_final"
      [] f = "rfc"   -> "rfc_final"

\* the combination the final-model cell of a family names: the bagging and
\* boosting cells read every swept hyperparameter from the recorded winner,
\* the random-forest cell spells three numbers out
FinalParams(f) ==
    CASE f = "bag"   -> ns["best_params"]
      [] f = "boost" -> ns["best_boost_params"]
      [] f = "rfc"   -> {[max_features |-> 7, min_samples_leaf |-> 9,
                          n_estimators |-> 2000]}

\* a final-model cell: bag = RandomForestClassifier(...), and so on; the
\* name of the sweep's estimator is bound to the new one
FinalModel(f) ==
    /\ pc.at \in Resting
    /\ IF FinalParams(f) = {}
       THEN /\ pc' = [cell |-> FinalCell(f), at |-> "raised", i |-> 0]
            /\ err' = "NameError"
            /\ est' = est
       ELSE /\ pc' = [cell |-> FinalCell(f), at |-> "done", i |-> 0]
            /\ err' = "none"
            /\ est' = [est EXCEPT ![f] = [params |-> FinalParams(f),
                                          fitted |-> "none", measured |-> 0]]
    /\ out' = <<>>
    /\ fits' = <<>>
    /\ UNCHANGED <<ns, truth, last, runs, order>>
    /\ UNCHANGED xvars

Next ==
    \/ ImportData
    \/ \E f \in Families : StartSweep(f)
    \/ \E f \in Families : ForNext(f)
    \/ \E f \in Families : SetParams(f)
    \/ \E f \in Families : Fit(f)
    \/ \E f \in Families : Test(f)
    \/ \E f \in Families : PrintScore(f)
    \/ \E f \in Families : PrintParams(f)

Spec == Init /\ [][Next]_vars

\* a step of the cell that is running: the kernel runs a cell it has
\* started, statement after statement, until it ends or raises
Step ==
    \E f \in Families :
        \/ ForNext(f)
        \/ SetParams(f)
        \/ Fit(f)
        \/ Test(f)
        \/ PrintScore(f)
        \/ PrintParams(f)

\* a sweep cell executed in a kernel that has executed no sweep cell yet
StartFirst(f) ==
    /\ runs = 0
    /\ StartSweep(f)

NextLive ==
    \/ ImportData
    \/ \E f \in Families : StartFirst(f)
    \/ Step

SpecLive == Init /\ [][NextLive]_vars /\ WF_vars(Step)

\* every order in which the n combinations of a grid can be visited
Orders(n) ==
    {p \in [1..n -> 1..n] : \A i, j \in 1..n : p[i] = p[j] => i = j}

\* the bagging sweep cell with the combinations of its grid handed to the
\* loop in an arbitrary order
StartPermuted ==
    /\ pc.at \in Resting
    /\ runs < MaxRuns
    /\ runs' = runs + 1
    /\ est' = [est EXCEPT !["bag"] = NewEstimator]
    /\ ns' = [ns EXCEPT ![ThresholdVar("bag")] = {Floor}]
    /\ pc' = [cell |-> "bag", at |-> "for", i |-> 0]
    /\ order' \in Orders(Len(Grid("bag")))
    /\ out' = <<>>
    /\ err' = "none"
    /\ fits' = <<>>
    /\ last' = [g \in Families |->
                 IF g = "bag" /\ pc.cell = "bag"
                 THEN {[out |-> out, err |-> err]} ELSE {}]
    /\ UNCHANGED truth
    /\ UNCHANGED xvars

NextPerm ==
    \/ ImportData
    \/ StartPermuted
    \/ ForNext("bag")
    \/ SetParams("bag")
    \/ Fit("bag")
    \/ Test("bag")
    \/ PrintScore("bag")
    \/ PrintParams("bag")

SpecPerm == Init /\ [][NextPerm]_vars

---------------------------------------------------------------------------
(* The cells of FINAL_XGBoost.ipynb *)

\* the test files read: up to MaxTest records, each with an Id of its own,
\* in the order of the file
TestFiles ==
    {ids \in UNION {[1..n -> 0..MaxId] : n \in 1..MaxTest} :
        \A i, j \in 1..Len(ids) : ids[i] = ids[j] => i = j}

Labels == {0, 1}

\* combinations RandomizedSearchCV can come back with
XgbCandidates ==
    {[max_depth |-> 1, n_estimators |-> 50],
     [max_depth |-> 7, n_estimators |-> 300]}

XResting == {"idle", "done", "raised"}
XDone(c) == [cell |-> c, at |-> "done", i |-> 0, err |-> "none"]
XRaised(c) == [cell |-> c, at |-> "raised", i |-> 0, err |-> "NameError"]

\* campaign_test = pd.read_csv(..., index_col="Id"), with X and y
ReadData ==
    /\ xpc.at \in XResting
    /\ \E ids \in TestFiles :
         xns' = [xns EXCEPT !["campaign_test"] = {ids}]
    /\ xpc' = XDone("read")
    /\ UNCHANGED <<file, xout, svars>>

\* X_train, X_test, ... = train_test_split(X, y, ...)
Split ==
    /\ xpc.at \in XResting
    /\ IF xns["campaign_test"] = {}
       THEN xpc' = XRaised("split") /\ xns' = xns
       ELSE xpc' = XDone("split") /\ xns' = [xns EXCEPT !["X_train"] = {TRUE}]
    /\ UNCHANGED <<file, xout, svars>>

\* model = RandomizedSearchCV(...); model.fit(X_train, y_train)
RandomSearch ==
    /\ xpc.at \in XResting
    /\ IF xns["X_train"] = {}
       THEN xpc' = XRaised("search") /\ xns' = xns
       ELSE /\ xpc' = XDone("search")
            /\ \E c \in XgbCandidates : xns' = [xns EXCEPT !["model"] = {c}]
    /\ UNCHANGED <<file, xout, svars>>

\* best_params = model.best_params_
BestParams ==
    /\ xpc.at \in XResting
    /\ IF xns["model"] = {}
       THEN xpc' = XRaised("best_params") /\ xns' = xns
       ELSE /\ xpc' = XDone("best_params")
            /\ xns' = [xns EXCEPT !["best_params"] = xns["model"]]
    /\ UNCHANGED <<file, xout, svars>>

\* xgb_model = XGBClassifier(**best_params, ...); xgb_model.fit(X_train, y_train)
FitTrain ==
    /\ xpc.at \in XResting
    /\ IF xns["best_params"] = {}
       THEN xpc' = XRaised("fit_train") /\ xns' = xns
       ELSE IF xns["X_train"] = {}
       THEN /\ xpc' = XRaised("fit_train")
            /\ xns' = [xns EXCEPT !["xgb_model"] =
                          {[params |-> Val(xns["best_params"]), fitted |-> "none"]}]
       ELSE /\ xpc' = XDone("fit_train")
            /\ xns' = [xns EXCEPT !["xgb_model"] =
                          {[params |-> Val(xns["best_params"]), fitted |-> "X_train"]}]
    /\ UNCHANGED <<file, xout, svars>>

\* a line of the accuracy cell: the records the accuracy is measured on
\* and, as an annotation, the data the model that predicts them was last
\* fitted on (the number printed is left out)
AccuracyLine(m, on) == [label |-> on, by |-> m.fitted]

\* y_train_pred = xgb_model.predict(X_train); print('Accuracy on train:', ...)
\* and the same for valid, test and campaign_ad.  predict on a model that
\* was never fitted raises.
Accuracy ==
    /\ xpc.at \in XResting
    /\ IF xns["xgb_model"] = {} \/ xns["X_train"] = {}
       THEN xpc' = XRaised("accuracy") /\ xout' = <<>>
       ELSE LET m == Val(xns["xgb_model"]) IN
            IF m.fitted = "none"
            THEN /\ xpc' = [XRaised("accuracy") EXCEPT !.err = "NotFittedError"]
                 /\ xout' = <<>>
            ELSE /\ xpc' = XDone("accuracy")
                 /\ xout' = <<AccuracyLine(m, "train"), AccuracyLine(m, "valid"),
                              AccuracyLine(m, "test"), AccuracyLine(m, "campaign_ad")>>
    /\ UNCHANGED <<xns, file, svars>>

\* m.predict(campaign_test): one label per record of the test file, in the
\* order of the file.  Each prediction carries, as annotations, the Id of
\* the record it was made for and the data the model was last fitted on.
Predict(m, ids, labels) ==
    [k \in 1..Len(ids) |-> [label |-> labels[k], of |-> ids[k], by |-> m.fitted]]

\* the prediction cell without its fit
PredictOnly ==
    /\ xpc.at \in XResting
    /\ IF xns["xgb_model"] = {} \/ xns["campaign_test"] = {}
       THEN xpc' = XRaised("refit") /\ xns' = xns
       ELSE LET ids == Val(xns["campaign_test"])
                m   == Val(xns["xgb_model"])
            IN  /\ xpc' = XDone("refit")
                /\ \E labels \in [1..Len(ids) -> Labels] :
                     xns' = [xns EXCEPT !["y_REAL_test"] = {Predict(m, ids, labels)}]
    /\ UNCHANGED <<file, xout, svars>>

\* xgb_model.fit(X, y); ...; y_REAL_test = xgb_model.predict(campaign_test)
Refit ==
    /\ xpc.at \in XResting
    /\ IF xns["xgb_model"] = {} \/ xns["campaign_test"] = {}
       THEN xpc' = XRaised("refit") /\ xns' = xns
       ELSE LET ids == Val(xns["campaign_test"])
                m   == [Val(xns["xgb_model"]) EXCEPT !.fitted = "X"]
            IN  /\ xpc' = XDone("refit")
                /\ \E labels \in [1..Len(ids) -> Labels] :
                     xns' = [xns EXCEPT !["xgb_model"] = {m},
                                        !["y_REAL_test"] = {Predict(m, ids, labels)}]
    /\ UNCHANGED <<file, xout, svars>>

\* writer.writerow(['Id', 'subscription'])
Header == [kind |-> "header", id |-> "Id", label |-> "subscription"]

\* every row holding the first prediction
FirstRow(i, y) ==
    [kind |-> "data", id |-> i, label |-> y[1].label,
     of |-> y[1].of, by |-> y[1].by]

\* writer.writerow([i, y_REAL_test[i]]), i counted from 0; the row carries
\* the annotations of the prediction it holds
Row(i, y) ==
    [kind |-> "data", id |-> i, label |-> y[i + 1].label,
     of |-> y[i + 1].of, by |-> y[i + 1].by]

\* file = open('test_file_xgboost.csv', 'w'); the header row
StartWriter ==
    /\ xpc.at \in XResting
    /\ file' = {[rows |-> <<Header>>, closed |-> FALSE]}
    /\ xpc' = [cell |-> "writer", at |-> "rows", i |-> 0, err |-> "none"]
    /\ UNCHANGED <<xns, xout, svars>>

\* for i in range(len(y_REAL_test)): writer.writerow(...)
WriteRow ==
    /\ xpc.cell = "writer" /\ xpc.at = "rows"
    /\ IF xns["y_REAL_test"] = {}
       THEN xpc' = XRaised("writer") /\ file' = file
       ELSE LET y == Val(xns["y_REAL_test"]) IN
            IF xpc.i < Len(y)
            THEN /\ file' = {[Val(file) EXCEPT
                                !.rows = Append(@, Row(xpc.i, y))]}
                 /\ xpc' = [xpc EXCEPT !.i = xpc.i + 1]
            ELSE /\ file' = file
                 /\ xpc' = [xpc EXCEPT !.at = "close"]
    /\ UNCHANGED <<xns, xout, svars>>

\* file.close()
CloseFile ==
    /\ xpc.cell = "writer" /\ xpc.at = "close"
    /\ file' = {[Val(file) EXCEPT !.closed = TRUE]}
    /\ xpc' = XDone("writer")
    /\ UNCHANGED <<xns, xout, svars>>

NextXgb ==
    \/ ReadData
    \/ Split
    \/ RandomSearch
    \/ BestParams
    \/ FitTrain
    \/ Accuracy
    \/ Refit
    \/ StartWriter
    \/ WriteRow
    \/ CloseFile

SpecXgb == Init /\ [][NextXgb]_vars

---------------------------------------------------------------------------
\* the sweep cells together with the final-model cells
NextFinal ==
    \/ Next
    \/ \E f \in Families : FinalModel(f)

SpecFinal == Init /\ [][NextFinal]_vars

---------------------------------------------------------------------------
(* What the claims speak of *)

Size(f) == Len(Grid(f))

\* the loop of f's sweep cell has run through the whole grid
LoopExhausted(f) ==
    /\ pc.cell = f
    /\ \/ pc.at \in {"print_score", "print_params", "done"}
       \/ pc.at = "raised" /\ err = "NameError"

\* f's sweep cell has run through the grid and its prints are over
SweepEnded(f) ==
    /\ pc.cell = f
    /\ \/ pc.at = "done"
       \/ pc.at = "raised" /\ err = "NameError"

\* the combinations the current execution has fitted and compared so far
Compared(f) ==
    IF pc.cell = f /\ pc.at \in {"for", "print_score", "print_params", "done"}
    THEN pc.i
    ELSE IF pc.cell = f /\ pc.at = "raised" /\ err = "NameError" THEN pc.i
    ELSE IF pc.cell = f /\ pc.at \in {"set_params", "fit", "test", "raised"}
    THEN pc.i - 1
    ELSE 0

\* the greatest score the first n combinations produced (n >= 1)
MaxScore(f, n) ==
    CHOOSE m \in {truth[f][i] : i \in 1..n} :
        \A i \in 1..n : truth[f][i] <= m

\* the first of the first n combinations that produced it
FirstMaxAt(f, n) ==
    CHOOSE i \in 1..n :
        /\ truth[f][i] = MaxScore(f, n)
        /\ \A j \in 1..(i - 1) : truth[f][j] < MaxScore(f, n)

---------------------------------------------------------------------------
(* Claims *)

\* C1: in the bagging and the boosting sweep, for every sequence of scores,
\* the best score reported at the end is the maximum score encountered and
\* the best combination reported is one whose fit produced that score.
C1_ReportsMaximum ==
    \A f \in {"bag", "boost"} :
        SweepEnded(f) =>
            /\ Len(out) >= 1 => out[1].value = Format5(MaxScore(f, Size(f)))
            /\ Len(out) >= 2 =>
                 \E i \in 1..Size(f) :
                    /\ truth[f][i] = MaxScore(f, Size(f))
                    /\ out[2].value = Grid(f)[i]

\* C2: in the random-forest sweep the reported best_rfc_score is the maximum
\* out-of-bag score over the grid and best_rfc_params is the combination
\* that produced it.
C2_ForestReportsMaximum ==
    SweepEnded("rfc") =>
        /\ Len(out) >= 1 => out[1].value = Format5(MaxScore("rfc", Size("rfc")))
        /\ Len(out) >= 2 =>
             \E i \in 1..Size("rfc") :
                /\ truth["rfc"][i] = MaxScore("rfc", Size("rfc"))
                /\ out[2].value = Grid("rfc")[i]

\* C3: when every score of a sweep is below the floor, the sweep reports
\* neither a best score nor a best combination.
C3_NoWinnerNotFabricated ==
    \A f \in Families :
        SweepEnded(f) /\ MaxScore(f, Size(f)) < Floor => out = <<>>

\* C4: when no score strictly exceeds the floor, then once the grid is
\* exhausted no combination is recorded as best (bagging, boosting).
C4_NoWinnerLeavesUnset ==
    \A f \in {"bag", "boost"} :
        LoopExhausted(f) /\ MaxScore(f, Size(f)) <= Floor
            => ns[ParamsVar(f)] = {}

\* C5: a sweep over N combinations fits each combination exactly once: never
\* one twice, and all N in grid order once the loop is through.
C5_EachCombinationFittedOnce ==
    /\ \A j, k \in 1..Len(fits) : fits[j] = fits[k] => j = k
    /\ \A f \in Families :
         LoopExhausted(f) => fits = [k \in 1..Size(f) |-> k]

C5_Witness ==
    /\ pc.cell = "boost" /\ pc.at = "done"
    /\ Len(fits) = Size("boost")
    /\ \E i \in 1..Size("boost") : truth["boost"][i] < Floor

\* C6: in the bagging and boosting sweeps, of the combinations compared so
\* far that attain the maximal score (above the floor), the first one in
\* iteration order is the one retained.
C6_FirstSeenWins ==
    \A f \in {"bag", "boost"} :
        LET n == Compared(f) IN
        (n >= 1 /\ MaxScore(f, n) > Floor)
            => ns[ParamsVar(f)] = {Grid(f)[FirstMaxAt(f, n)]}

C6_Witness ==
    \E f \in {"bag", "boost"} :
        /\ LoopExhausted(f)
        /\ \E i, j \in 1..Size(f) :
             /\ i < j
             /\ truth[f][i] = Floor + 4
             /\ truth[f][j] = Floor + 4
             /\ MaxScore(f, Size(f)) = Floor + 4
             /\ ns[ParamsVar(f)] = {Grid(f)[i]}

\* C7: in every sweep loop each update of the recorded best score replaces
\* it with a strictly greater value, and the recorded best score is never
\* below the floor.
C7_BestScoreOnlyRises ==
    [][\A f \in Families :
         (pc.cell = f /\ pc.at = "test" /\ ns[ScoreVar(f)] # {})
            => /\ Val(ns[ScoreVar(f)]) >= Floor
               /\ ns'[ScoreVar(f)] # ns[ScoreVar(f)]
                    => Val(ns'[ScoreVar(f)]) > Val(ns[ScoreVar(f)])]_vars

\* C8: the score a combination is selected by is never its accuracy on the
\* records the estimator was fitted on.
C8_SelectedByValidationScore ==
    \A f \in Families :
        pc.cell = f /\ pc.at = "test" => SweepScore(f).on # est[f].fitted

C10_FitFailureAborts ==
    err = "FitError" =>
        /\ pc.at = "raised"
        /\ out = <<>>
        /\ fits = [k \in 1..pc.i |-> k]
        /\ truth[pc.cell][pc.i] = -1
        /\ est[pc.cell].params = {Grid(pc.cell)[pc.i]}

C10_Witness ==
    /\ err = "FitError"
    /\ pc.i >= 2
    /\ ns[ParamsVar(pc.cell)] # {}
    /\ out = <<>>

\* the last of the first n combinations whose score exceeds the floor
LastAboveAt(f, n) ==
    CHOOSE i \in 1..n :
        /\ truth[f][i] > Floor
        /\ \A j \in (i + 1)..n : truth[f][j] <= Floor

C15_ScoreBelongsToCombination ==
    \A f \in Families :
        (pc.cell = f /\ ns[ParamsVar(f)] # {}) =>
            \E i \in 1..Size(f) :
                /\ Grid(f)[i] = Val(ns[ParamsVar(f)])
                /\ ns[ScoreVar(f)] = {truth[f][i]}

\* every way of taking one value per hyperparameter from the lists
RECURSIVE Choices(_)
Choices(lists) ==
    IF lists = <<>> THEN {<<>>}
    ELSE {(lists[1][1] :> lists[1][2][j]) @@ c :
             j \in 1..Len(lists[1][2]), c \in Choices(Tail(lists))}

\* ParameterGrid yields every choice exactly once
IsProduct(lists) ==
    LET pg == ParameterGrid(lists) IN
    \A c \in Choices(lists) : Cardinality({n \in 1..Len(pg) : pg[n] = c}) = 1

GridLists(f) ==
    CASE f = "bag"   -> bag_hyperparam_grid
      [] f = "boost" -> boost_hyperparam_grid
      [] f = "rfc"   -> rf_hyperparam_grid

FullGridsAreProducts ==
    /\ IsProduct(bag_hyperparam_lists)
    /\ Len(ParameterGrid(bag_hyperparam_lists)) = 30
    /\ IsProduct(boost_hyperparam_lists)
    /\ Len(ParameterGrid(boost_hyperparam_lists)) = 150
    /\ IsProduct(rf_hyperparam_lists)
    /\ Len(ParameterGrid(rf_hyperparam_lists)) = 180

\* (the lists are constants: their part is evaluated in the initial state)
\* C16: a sweep visits the full Cartesian product of its value lists, every
\* combination exactly once; the lists of the notebook give 30, 150 and 180
\* combinations.
C16_VisitsCartesianProduct ==
    /\ pc.at = "idle" => FullGridsAreProducts
    /\ \A f \in Families :
         LoopExhausted(f) =>
            LET g == Grid(f)
                all == Choices(GridLists(f))
            IN  /\ {g[fits[k]] : k \in 1..Len(fits)} = all
                /\ Len(fits) = Cardinality(all)

C16_Witness ==
    /\ LoopExhausted("rfc")
    /\ Len(fits) = Size("rfc")
    /\ Size("rfc") > 1

\* C17: within an iteration the estimator is configured with the current
\* combination, then fitted, then its score compared, and the iteration
\* before is complete; the score compared is the one the fit of the
\* current combination produced.
C17_StepsInSequence ==
    \A f \in Families :
        pc.cell = f =>
            /\ pc.at = "set_params" => Len(fits) = pc.i - 1
            /\ pc.at = "fit" =>
                 /\ est[f].params = {Grid(f)[Cur]}
                 /\ Len(fits) = pc.i - 1
            /\ pc.at = "test" =>
                 /\ est[f].params = {Grid(f)[Cur]}
                 /\ est[f].fitted = "X_train"
                 /\ Len(fits) = pc.i
                 /\ fits[Len(fits)] = Cur
                 /\ SweepScore(f).value = truth[f][Cur]

C17_Witness ==
    /\ pc.cell = "boost" /\ pc.at = "test"
    /\ pc.i >= 2
    /\ truth["boost"][order[pc.i - 1]] # truth["boost"][Cur]
    /\ SweepScore("boost").value = truth["boost"][Cur]

\* C19: the recorded best combination changes only by being replaced as a
\* whole by the current combination, on a comparison its score wins; no
\* other step (configuring, fitting, the for statement, the prints)
\* changes it.
C19_RecordedCombinationUntouched ==
    [][\A f \in Families :
         ns'[ParamsVar(f)] # ns[ParamsVar(f)] =>
            /\ pc.cell = f /\ pc.at = "test"
            /\ SweepScore(f).value > Val(ns[ThresholdVar(f)])
            /\ ns'[ParamsVar(f)] = {Grid(f)[Cur]}]_vars

C19_Witness ==
    /\ pc.cell = "bag" /\ pc.at = "test"
    /\ pc.i >= 3
    /\ ns["best_params"] = {Grid("bag")[order[1]]}
    /\ est["bag"].params = {Grid("bag")[Cur]}

\* C14: the final model of every family takes each swept hyperparameter
\* from the winner its sweep recorded.
C14_FinalModelUsesWinner ==
    \A f \in Families :
        (pc.cell = FinalCell(f) /\ pc.at = "done" /\ ns[ParamsVar(f)] # {}) =>
            est[f].params = ns[ParamsVar(f)]

\* the maximum of the scores is attained by one combination only
UniqueMax(f) ==
    Cardinality({i \in 1..Size(f) : truth[f][i] = MaxScore(f, Size(f))}) = 1

\* C12: whatever the order in which the bagging loop visits the
\* combinations, it ends with the greater of 0.5 and the greatest score
\* and, when one combination alone attains a maximum above 0.5, with that
\* combination; so two executions on the same scores that differ in the
\* order only print the same score and, with a single maximum, the same
\* combination.
C12_OrderDoesNotMatter ==
    /\ LoopExhausted("bag") =>
          LET m == MaxScore("bag", Size("bag")) IN
          /\ ns["best_score"] = {IF m > Floor THEN m ELSE Floor}
          /\ (m > Floor /\ UniqueMax("bag")) =>
                \E i \in 1..Size("bag") :
                    /\ truth["bag"][i] = m
                    /\ ns["best_params"] = {Grid("bag")[i]}
    /\ (pc.cell = "bag" /\ pc.at = "done" /\ last["bag"] # {}) =>
          LET before == Val(last["bag"]) IN
          before.err = "none" =>
             /\ out[1] = before.out[1]
             /\ UniqueMax("bag") => out[2] = before.out[2]

C12_Witness ==
    /\ pc.cell = "bag" /\ pc.at = "done"
    /\ order # GridOrder("bag")
    /\ last["bag"] # {}
    /\ Val(last["bag"]).err = "none"
    /\ UniqueMax("bag")
    /\ MaxScore("bag", Size("bag")) > Floor
    /\ truth["bag"][order[1]] > Floor
    /\ truth["bag"][order[1]] < MaxScore("bag", Size("bag"))
    /\ out[2].value = Grid("bag")[FirstMaxAt("bag", Size("bag"))]

\* every combination of the grid has been fitted, each once
AllFitted(f) ==
    /\ Len(fits) = Size(f)
    /\ {fits[k] : k \in 1..Len(fits)} = 1..Size(f)

\* C18: a sweep cell that has started ends, unless a fit raises; it ends,
\* and prints its result, only when every combination of the grid has been
\* fitted.
C18_TerminatesAfterAllFitted ==
    /\ [](\A f \in Families :
            /\ SweepEnded(f) => AllFitted(f)
            /\ (pc.cell = f /\ out # <<>>) => (LoopExhausted(f) /\ AllFitted(f)))
    /\ \A f \in Families :
            (pc.cell = f /\ pc.at = "for" /\ pc.i = 0)
               ~> (SweepEnded(f) \/ (pc.cell = f /\ err = "FitError"))

C18_Witness ==
    /\ pc.cell = "boost" /\ pc.at = "done"
    /\ AllFitted("boost")
    /\ Len(out) = 2

\* the data rows of the submission file
DataRows ==
    IF file = {} THEN {}
    ELSE {Val(file).rows[k] : k \in 2..Len(Val(file).rows)}

\* C11: every data row of the submission file carries the Id of the test
\* record its label was predicted for.
C11_RowCarriesRecordId ==
    \A r \in DataRows : r.id = r.of

\* C20: every prediction held in y_REAL_test, and every prediction written
\* to the submission file, was made by the model after its fit on the whole
\* labelled data (X, y).
C20_PredictionsFromFullFit ==
    /\ xns["y_REAL_test"] # {} =>
          \A k \in 1..Len(Val(xns["y_REAL_test"])) :
              Val(xns["y_REAL_test"])[k].by = "X"
    /\ \A r \in DataRows : r.by = "X"

C20_Witness ==
    /\ xpc.cell = "writer" /\ xpc.at = "done"
    /\ Cardinality(DataRows) = MaxTest
    /\ xns["xgb_model"] # {}
    /\ Val(xns["xgb_model"]).fitted = "X_train"

\* C21: every validation accuracy and every test accuracy printed is
\* computed by a model last fitted on the training partition.
C21_HeldOutAccuracyFromTrainFit ==
    \A k \in 1..Len(xout) :
        xout[k].label \in {"valid", "test"} => xout[k].by = "X_train"

\* C22: the predictions cover the records of the test file in its order;
\* the writer cell puts the header first and then one row per prediction,
\* in order, none left out or repeated, and once the cell is through the
\* file holds them all and is closed.
C22_HeaderThenOneRowPerRecord ==
    /\ (xpc.cell = "refit" /\ xpc.at = "done") =>
          LET y == Val(xns["y_REAL_test"]) IN
          [k \in 1..Len(y) |-> y[k].of] = Val(xns["campaign_test"])
    /\ (xpc.cell = "writer" /\ xpc.at # "raised" /\ xns["y_REAL_test"] # {}) =>
          LET y    == Val(xns["y_REAL_test"])
              rows == Val(file).rows
          IN  /\ rows[1] = Header
              /\ Len(rows) = 1 + (IF xpc.at = "rows" THEN xpc.i ELSE Len(y))
              /\ \A k \in 2..Len(rows) :
                   /\ rows[k].kind = "data"
                   /\ rows[k].of = y[k - 1].of
                   /\ rows[k].label = y[k - 1].label
              /\ Val(file).closed <=> xpc.at = "done"

C22_Witness ==
    /\ xpc.cell = "writer" /\ xpc.at = "done"
    /\ Val(file).closed
    /\ Len(Val(file).rows) = 1 + MaxTest
    /\ Val(file).rows[2].label # Val(file).rows[3].label

\* C23: an execution of a sweep cell in which no score exceeds the floor
\* reports no best combination, whatever earlier executions of the cell
\* recorded.
C23_NoStaleWinnerReported ==
    \A f \in Families :
        (SweepEnded(f) /\ \A i \in 1..Size(f) : truth[f][i] <= Floor) =>
            \A k \in 1..Len(out) : out[k].label # "Best parameters"

====
